---- MODULE Spec2Model ----
(***************************************************************************)
(* StudyGenie: the Response Interpreter of backend/ai_engine.py and the    *)
(* request handlers of backend/main.py.                                    *)
(*                                                                         *)
(* A completion (the text the model returns) is a sequence of lexical      *)
(* tokens separated by optional whitespace.  The regular expressions and   *)
(* json.loads of the source are modelled on these tokens: each token       *)
(* stands for a fixed piece of text, and the matching rules below are the  *)
(* rules of the source's patterns on such pieces.  Inside an array the     *)
(* separating commas are part of the element tokens.                       *)
(*                                                                         *)
(* A Python function is written as a chain of operators, one per stage of  *)
(* its body, each taking the values the earlier stages computed.           *)
(***************************************************************************)
EXTENDS Integers, Sequences, FiniteSets, TLC

VARIABLES pc, op, args, llm, calls, ret

vars == <<pc, op, args, llm, calls, ret>>

(***************************************************************************)
(* Bounds of the model.                                                    *)
(***************************************************************************)
MaxLen == 4
MaxCount == 3
MaxPre == 2
MaxPost == 1
MaxRecords == 2
MaxApiLen == 3
MaxFlashLen == 3

(***************************************************************************)
(* Python / JSON values, tagged with their type.                           *)
(***************************************************************************)
Str(s) == [t |-> "str", v |-> s]
Num(k) == [t |-> "num", v |-> k]
Arr(s) == [t |-> "arr", v |-> s]
Obj(d) == [t |-> "obj", v |-> d]
None == [t |-> "none", v |-> 0]

isinstance_list(x) == x.t = "arr"
isinstance_dict(x) == x.t = "obj"

\* str(x) as an f-string renders it
format_value(x) ==
    CASE x.t = "str" -> x.v
      [] x.t = "num" -> ToString(x.v)
      [] OTHER -> "None"

FourOptions == Arr(<<Str("Option A"), Str("Option B"), Str("Option C"), Str("Option D")>>)
ABCD == Arr(<<Str("A"), Str("B"), Str("C"), Str("D")>>)

(***************************************************************************)
(* The tokens of a completion.                                             *)
(*   P    a word of prose (no bracket, brace or backtick)                  *)
(*   FJ   the fence opening ```json                                        *)
(*   F    the bare fence ```                                               *)
(*   LB   [            RB   ]                                              *)
(*   N    the JSON number 1         S   the JSON string "abc"              *)
(*   Qa.. JSON objects shaped like quiz records (each begins with { and    *)
(*        ends with }; the brackets of the options array inside are        *)
(*        followed by a comma or a brace)                                  *)
(*   Ca   a flashcard object, Ck one without answer (no bracket inside)    *)
(*   C7   seven flashcard objects in a row                                 *)
(***************************************************************************)
Qa == Obj([question |-> Str("Q1"), options |-> ABCD,
           correct_answer |-> Str("B"), explanation |-> Str("E")])
Qb == Obj([question |-> Str("Q2"), options |-> ABCD,
           correct_answer |-> Str("Z")])
Q3 == Obj([question |-> Str("Q3"), options |-> Arr(<<Str("A"), Str("B"), Str("C")>>),
           correct_answer |-> Str("A"), explanation |-> Str("E3")])
Qk == Obj([question |-> Str("Q4"), options |-> ABCD, explanation |-> Str("E4")])
Qs == Obj([question |-> Str("Q5"), options |-> Str("ABCD"),
           correct_answer |-> Num(2)])
Ca == Obj([topic |-> Str("T1"), question |-> Str("FQ1"), answer |-> Str("FA1")])
Ck == Obj([topic |-> Str("T2"), question |-> Str("FQ2")])

ObjectTokens == {"Qa", "Qb", "Q3", "Qk", "Qs"}
CardTokens == {"Ca", "Ck"}
RunTokens == {"C7"}
ValueTokens == ObjectTokens \cup CardTokens \cup {"N", "S"}
QuizTokens == {"P", "FJ", "F", "LB", "RB", "N"} \cup ObjectTokens
FlashTokens == {"P", "LB", "RB", "N", "S", "C7"} \cup CardTokens

TokenValue(tok) ==
    CASE tok = "Qa" -> Qa
      [] tok = "Qb" -> Qb
      [] tok = "Q3" -> Q3
      [] tok = "Qk" -> Qk
      [] tok = "Qs" -> Qs
      [] tok = "Ca" -> Ca
      [] tok = "Ck" -> Ck
      [] tok = "S" -> Str("abc")
      [] tok = "N" -> Num(1)
      [] OTHER -> None

\* the elements a run token contributes to the array around it
RunValue(tok) == [k \in 1..7 |-> Ca]

\* the token begins with the three backticks of a fence
StartsWithFence(tok) == tok \in {"F", "FJ"}

SeqsUpTo(S, n) == UNION {[1..k -> S] : k \in 0..n}

Min(S) == CHOOSE x \in S : \A y \in S : x <= y
Max(S) == CHOOSE x \in S : \A y \in S : x >= y

(***************************************************************************)
(* json.loads: the text must be exactly one JSON value.                    *)
(***************************************************************************)
ParseFail == [ok |-> FALSE, val |-> None, next |-> 0]

RECURSIVE ParseValue(_, _)
RECURSIVE ParseElems(_, _, _)
RECURSIVE ParseElem(_, _, _)

\* the value that starts at token i, and the position after it
ParseValue(toks, i) ==
    IF i > Len(toks) THEN ParseFail
    ELSE IF toks[i] \in ValueTokens
         THEN [ok |-> TRUE, val |-> TokenValue(toks[i]), next |-> i + 1]
    ELSE IF toks[i] = "LB" THEN ParseElems(toks, i + 1, <<>>)
    ELSE ParseFail

\* the rest of an array whose elements so far are acc
ParseElems(toks, i, acc) ==
    IF i > Len(toks) THEN ParseFail
    ELSE IF toks[i] = "RB" THEN [ok |-> TRUE, val |-> Arr(acc), next |-> i + 1]
    ELSE IF toks[i] \in RunTokens THEN ParseElems(toks, i + 1, acc \o RunValue(toks[i]))
    ELSE ParseElem(toks, ParseValue(toks, i), acc)

\* r is the element just parsed
ParseElem(toks, r, acc) ==
    IF r.ok THEN ParseElems(toks, r.next, Append(acc, r.val)) ELSE ParseFail

\* r is the value parsed from the first token on: nothing may follow it
WholeText(toks, r) ==
    IF r.ok /\ r.next = Len(toks) + 1
    THEN [ok |-> TRUE, val |-> r.val]
    ELSE [ok |-> FALSE, val |-> None]

\* [ok |-> FALSE] stands for json.JSONDecodeError
json_loads(toks) == WholeText(toks, ParseValue(toks, 1))

(***************************************************************************)
(* re.search(r'```json\s*(\[[\s\S]*?\])\s*```', text): the leftmost ```json*)
(* followed by [ for which some later ] is followed by a fence; the group  *)
(* ends at the first such ].                                               *)
(***************************************************************************)
NoMatch == [found |-> FALSE, group |-> <<>>]

FenceEnds(toks, i) ==
    {j \in (i + 2)..(Len(toks) - 1) : toks[j] = "RB" /\ StartsWithFence(toks[j + 1])}

FenceStarts(toks) ==
    {i \in 1..(Len(toks) - 1) :
        toks[i] = "FJ" /\ toks[i + 1] = "LB" /\ FenceEnds(toks, i) # {}}

\* variant: the whole match is taken (group 0), fences included
FenceGroup_whole_match(toks, i, j) == SubSeq(toks, i, j + 1)

\* group(1) of the match that starts at i and whose ] is at j
FenceGroup(toks, i, j) == SubSeq(toks, i + 1, j)

FenceMatchAt(toks, i) ==
    [found |-> TRUE, group |-> FenceGroup(toks, i, Min(FenceEnds(toks, i)))]

FenceMatch(toks, starts) ==
    IF starts = {} THEN NoMatch ELSE FenceMatchAt(toks, Min(starts))

fence_search(toks) == FenceMatch(toks, FenceStarts(toks))

(***************************************************************************)
(* re.search(r'\[\s*\{.*\}\s*\]', text, re.DOTALL): the leftmost [ followed*)
(* by { for which some later } is followed by ]; greedy, so the match ends *)
(* at the last such ].                                                     *)
(***************************************************************************)
ArrayEnds(toks, i) ==
    {j \in (i + 2)..Len(toks) : toks[j] = "RB" /\ toks[j - 1] \in ObjectTokens}

ArrayStarts(toks) ==
    {i \in 1..(Len(toks) - 1) :
        toks[i] = "LB" /\ toks[i + 1] \in ObjectTokens /\ ArrayEnds(toks, i) # {}}

ArrayMatchAt(toks, i) ==
    [found |-> TRUE, group |-> SubSeq(toks, i, Max(ArrayEnds(toks, i)))]

ArrayMatch(toks, starts) ==
    IF starts = {} THEN NoMatch ELSE ArrayMatchAt(toks, Min(starts))

array_search(toks) == ArrayMatch(toks, ArrayStarts(toks))

\* variant: the bare array is preferred to the fenced block
Candidate_bare_first(response_content, fenced, bare) ==
    IF bare.found THEN bare.group
    ELSE IF fenced.found THEN fenced.group
    ELSE response_content

\* lines 179-189: the candidate, given the results of the two searches
Candidate(response_content, fenced, bare) ==
    IF fenced.found THEN fenced.group
    ELSE IF bare.found THEN bare.group
    ELSE response_content

quiz_json(response_content) ==
    Candidate(response_content, fence_search(response_content),
              array_search(response_content))

(***************************************************************************)
(* _create_fallback_quiz                                                   *)
(***************************************************************************)
create_fallback_quiz(subject, num_questions) ==
    [i \in 1..num_questions |->
        Obj([question |-> Str("Sample " \o subject \o " question #" \o ToString(i)),
             options |-> FourOptions,
             correct_answer |-> Str("Option A"),
             explanation |-> Str("This is a fallback explanation.")])]

(***************************************************************************)
(* _validate_quiz_data: the exception it raises, "ok" when it returns.     *)
(* The checks run in the order of the source; question["options"] on a     *)
(* mapping without that key would be a KeyError.                           *)
(***************************************************************************)
RequiredKeys == {"question", "options", "correct_answer"}

\* variant: the key-presence check of line 164 left out
question_exc_no_key_check(question) ==
    IF ~isinstance_dict(question) THEN "ValueError"
    ELSE IF "options" \notin DOMAIN question.v THEN "KeyError"
    ELSE IF ~isinstance_list(question.v.options) \/ Len(question.v.options.v) # 4
         THEN "ValueError"
    ELSE "ok"

\* lines 161-168, for one record
question_exc(question) ==
    IF ~isinstance_dict(question) THEN "ValueError"
    ELSE IF ~(RequiredKeys \subseteq DOMAIN question.v) THEN "ValueError"
    ELSE IF "options" \notin DOMAIN question.v THEN "KeyError"
    ELSE IF ~isinstance_list(question.v.options) \/ Len(question.v.options.v) # 4
         THEN "ValueError"
    ELSE "ok"

\* the loop of line 160 stops at the first record that raises
FirstExc(items, bad) ==
    IF bad = {} THEN "ok" ELSE question_exc(items[Min(bad)])

\* variant: only the type of the payload is checked, not its records
validate_quiz_data_list_only(quiz_data) ==
    IF ~isinstance_list(quiz_data) THEN "ValueError" ELSE "ok"

validate_quiz_data(quiz_data) ==
    IF ~isinstance_list(quiz_data) THEN "ValueError"
    ELSE FirstExc(quiz_data.v,
                  {k \in 1..Len(quiz_data.v) : question_exc(quiz_data.v[k]) # "ok"})

(***************************************************************************)
(* _parse_quiz_response                                                    *)
(***************************************************************************)
\* variant: the slice keeps one record too many
truncate_one_more(quiz_data, num_questions) ==
    IF Len(quiz_data) > num_questions
    THEN SubSeq(quiz_data, 1, num_questions + 1)
    ELSE quiz_data

\* lines 198-199
truncate(quiz_data, num_questions) ==
    IF Len(quiz_data) > num_questions
    THEN SubSeq(quiz_data, 1, num_questions)
    ELSE quiz_data

\* variant: the explanation names the first option instead of correct_answer
add_explanation_first_option(question) ==
    IF "explanation" \notin DOMAIN question.v
    THEN Obj([key \in DOMAIN question.v \cup {"explanation"} |->
                IF key = "explanation"
                THEN Str("The correct answer is "
                         \o format_value(question.v.options.v[1]) \o ".")
                ELSE question.v[key]])
    ELSE question

\* lines 203-204, for one record
add_explanation(question) ==
    IF "explanation" \notin DOMAIN question.v
    THEN Obj([key \in DOMAIN question.v \cup {"explanation"} |->
                IF key = "explanation"
                THEN Str("The correct answer is "
                         \o format_value(question.v.correct_answer) \o ".")
                ELSE question.v[key]])
    ELSE question

\* question['correct_answer'] of line 204 on a record without that key
explanation_exc(question) ==
    IF "explanation" \notin DOMAIN question.v /\ "correct_answer" \notin DOMAIN question.v
    THEN "KeyError"
    ELSE "ok"

Ended(exc) == [exc |-> exc, value |-> <<>>]

\* lines 201-206 on the truncated batch
Explained(quiz_data) ==
    IF \E k \in 1..Len(quiz_data) : explanation_exc(quiz_data[k]) # "ok"
    THEN Ended("KeyError")
    ELSE [exc |-> "ok",
          value |-> [k \in 1..Len(quiz_data) |-> add_explanation(quiz_data[k])]]

\* variant: a record whose correct_answer is none of its options is refused
Validated_answer_checked(quiz_data, exc, num_questions) ==
    IF exc # "ok" THEN Ended(exc)
    ELSE IF \E k \in 1..Len(quiz_data.v) :
               \A o \in 1..4 : quiz_data.v[k].v.options.v[o] # quiz_data.v[k].v.correct_answer
         THEN Ended("ValueError")
    ELSE Explained(truncate(quiz_data.v, num_questions))

\* lines 195-206, given what _validate_quiz_data raised
Validated(quiz_data, exc, num_questions) ==
    IF exc # "ok" THEN Ended(exc)
    ELSE Explained(truncate(quiz_data.v, num_questions))

\* variant: the batch is truncated before it is validated
Loaded_truncate_first(parsed, num_questions) ==
    IF ~parsed.ok THEN Ended("JSONDecodeError")
    ELSE IF ~isinstance_list(parsed.val) THEN Ended("ValueError")
    ELSE IF validate_quiz_data(Arr(truncate(parsed.val.v, num_questions))) # "ok"
         THEN Ended("ValueError")
    ELSE Explained(truncate(parsed.val.v, num_questions))

\* lines 192-206, given what json.loads returned or raised
Loaded(parsed, num_questions) ==
    IF ~parsed.ok THEN Ended("JSONDecodeError")
    ELSE Validated(parsed.val, validate_quiz_data(parsed.val), num_questions)

\* the body of the try block, lines 176-206: the exception it ends with
\* ("ok" when it reaches the return) and the value it returns
parse_try(response_content, num_questions) ==
    Loaded(json_loads(quiz_json(response_content)), num_questions)

\* except (json.JSONDecodeError, ValueError), line 208
Caught == {"JSONDecodeError", "ValueError"}

Raise(e) == [raised |-> TRUE, exc |-> e, value |-> <<>>]
Return(x) == [raised |-> FALSE, exc |-> "ok", value |-> x]

\* lines 206-212, given how the try body ended
Handled(body, subject, num_questions) ==
    IF body.exc = "ok" THEN Return(body.value)
    ELSE IF body.exc \in Caught
         THEN Return(create_fallback_quiz(subject, num_questions))
    ELSE Raise(body.exc)

parse_quiz_response(response_content, subject, num_questions) ==
    Handled(parse_try(response_content, num_questions), subject, num_questions)

(***************************************************************************)
(* The interpreter on its own: one call of _parse_quiz_response on a       *)
(* completion, a subject and a requested count.                            *)
(***************************************************************************)
Subjects == {"Math"}
Counts == 0..MaxCount
Completions == SeqsUpTo(QuizTokens, MaxLen)

NoReturn == Return(<<>>)

Init ==
    /\ pc = "start"
    /\ op = "_parse_quiz_response"
    /\ \E c \in Completions, s \in Subjects, n \in Counts :
          args = [response_content |-> c, subject |-> s, num_questions |-> n]
    /\ llm = <<>>
    /\ calls = 0
    /\ ret = NoReturn

ParseQuizResponse ==
    /\ pc = "start"
    /\ op = "_parse_quiz_response"
    /\ ret' = parse_quiz_response(args.response_content, args.subject,
                                   args.num_questions)
    /\ pc' = "done"
    /\ UNCHANGED <<op, args, llm, calls>>

Next == ParseQuizResponse

Spec == Init /\ [][Next]_vars

(***************************************************************************)
(* The interpreter on completions that wrap an array of well-formed        *)
(* records in a fenced block: text before, the opening fence (with the     *)
(* json tag or bare), the array, the closing fence, text after.  The text  *)
(* around the block is any token sequence.                                 *)
(***************************************************************************)
GoodTokens == {"Qa", "Qb"}
ProseTokens == {"P", "FJ", "F", "LB", "RB", "Qa"}

FencedText(pre, tag, records, post) ==
    pre \o <<tag>> \o <<"LB">> \o records \o <<"RB">> \o <<"F">> \o post

InitFenced ==
    /\ pc = "start"
    /\ op = "_parse_quiz_response"
    /\ \E pre \in SeqsUpTo(ProseTokens, MaxPre), post \in SeqsUpTo(ProseTokens, MaxPost),
          tag \in {"FJ", "F"}, records \in SeqsUpTo(GoodTokens, MaxRecords),
          s \in Subjects, n \in Counts :
          /\ Len(records) <= n
          /\ args = [response_content |-> FencedText(pre, tag, records, post),
                     subject |-> s, num_questions |-> n,
                     pre |-> pre, tag |-> tag, records |-> records, post |-> post]
    /\ llm = <<>>
    /\ calls = 0
    /\ ret = NoReturn

NextFenced == ParseQuizResponse

SpecFenced == InitFenced /\ [][NextFenced]_vars

(***************************************************************************)
(* The model-invocation collaborator: get_llm() and the call llm([...]).   *)
(* An outcome is the completion it returns, or a failure (an exception     *)
(* from the client or its construction).                                   *)
(***************************************************************************)
Failure == [ok |-> FALSE, content |-> <<>>]
Outcomes(texts) == {Failure} \cup {[ok |-> TRUE, content |-> c] : c \in texts}

(***************************************************************************)
(* generate_quiz.  The name _format_quiz_with_reveal is bound nowhere in   *)
(* ai_engine.py, so evaluating the call of line 246 raises NameError.      *)
(***************************************************************************)
format_quiz_with_reveal(quiz_data) == Raise("NameError")

\* lines 247-250, given what the formatter returned or raised
Formatted(quiz_data, formatted_quiz) ==
    IF formatted_quiz.raised THEN Raise("Exception")
    ELSE Return([quiz_data |-> quiz_data, formatted_quiz |-> formatted_quiz.value])

\* lines 244-258, given what _parse_quiz_response returned or raised
Interpreted(quiz_data, reveal_answer) ==
    IF quiz_data.raised THEN Raise("Exception")
    ELSE IF reveal_answer
         THEN Formatted(quiz_data.value, format_quiz_with_reveal(quiz_data.value))
         ELSE Return([quiz_data |-> quiz_data.value])

generate_quiz(subject, level, num_questions, reveal_answer, outcome) ==
    IF ~outcome.ok THEN Raise("Exception")
    ELSE Interpreted(parse_quiz_response(outcome.content, subject, num_questions),
                     reveal_answer)

(***************************************************************************)
(* POST /quiz and GET /quiz-html/{subject}/{level}/{num_questions}         *)
(***************************************************************************)
MinQuestions == 1
MaxQuestions == 10

Response(status, body) == [status |-> status, body |-> body]

\* QuizRequest: Field(5, ge=1, le=10); a body that fails it is answered 422
\* before the handler runs
QuizRequest_valid(data) ==
    data.num_questions >= MinQuestions /\ data.num_questions <= MaxQuestions

\* lines 98-107, given what generate_quiz returned or raised
QuizApiResponse(data, quiz_result) ==
    IF quiz_result.raised THEN Response(500, "Error generating quiz")
    ELSE IF data.reveal_format
         THEN Response(200, [quiz |-> quiz_result.value.quiz_data,
                             formatted_quiz |-> quiz_result.value.formatted_quiz])
         ELSE Response(200, [quiz |-> quiz_result.value.quiz_data,
                             formatted_quiz |-> None])

generate_quiz_api(data, outcome) ==
    QuizApiResponse(data, generate_quiz(data.subject, data.level, data.num_questions,
                                        data.reveal_format, outcome))

\* lines 120-122
QuizHtmlResponse(quiz_result) ==
    IF quiz_result.raised THEN Response(500, "Error generating quiz HTML")
    ELSE Response(200, quiz_result.value.formatted_quiz)

get_quiz_html(subject, level, num_questions, outcome) ==
    QuizHtmlResponse(generate_quiz(subject, level, num_questions, TRUE, outcome))

Levels == {"Beginner"}
RequestCounts == (0..MaxCount) \cup {MaxQuestions, MaxQuestions + 1}
QuizRequests ==
    [subject : Subjects, level : Levels, num_questions : RequestCounts,
     reveal_format : BOOLEAN]
QuizOutcomes == Outcomes(SeqsUpTo(QuizTokens, MaxApiLen))

InitQuiz ==
    /\ pc = "start"
    /\ op \in {"POST /quiz", "GET /quiz-html"}
    /\ args = <<>>
    /\ llm = <<>>
    /\ calls = 0
    /\ ret = NoReturn

GenerateQuizApi ==
    /\ pc = "start"
    /\ op = "POST /quiz"
    /\ \E data \in QuizRequests, outcome \in QuizOutcomes :
          /\ args' = data
          /\ IF QuizRequest_valid(data)
             THEN /\ llm' = <<outcome>>
                  /\ calls' = 1
                  /\ ret' = generate_quiz_api(data, outcome)
             ELSE /\ llm' = <<>>
                  /\ calls' = 0
                  /\ ret' = Response(422, "validation error")
    /\ pc' = "done"
    /\ UNCHANGED op

GetQuizHtml ==
    /\ pc = "start"
    /\ op = "GET /quiz-html"
    /\ \E data \in QuizRequests, outcome \in QuizOutcomes :
          /\ data.reveal_format
          /\ args' = data
          /\ llm' = <<outcome>>
          /\ calls' = 1
          /\ ret' = get_quiz_html(data.subject, data.level, data.num_questions, outcome)
    /\ pc' = "done"
    /\ UNCHANGED op

NextQuiz == GenerateQuizApi \/ GetQuizHtml

SpecQuiz == InitQuiz /\ [][NextQuiz]_vars

(***************************************************************************)
(* POST /process_pdf.  The upload is described by what the handler tests:  *)
(* its file name, whether PyPDF2 can read it, whether any page yields      *)
(* text.  The fields content, total_chars and pages of the answer depend   *)
(* on the extracted text alone and are left out of the body.               *)
(***************************************************************************)
MinFlashcards == 8

\* file.filename.lower().endswith('.pdf')
lower_endswith_pdf(filename) == filename \in {"notes.pdf", "NOTES.PDF"}

\* re.search(r'\[.*\]', text, re.DOTALL): the first [ to the last ] after it
BracketStarts(toks) ==
    {i \in 1..Len(toks) : toks[i] = "LB" /\ \E j \in (i + 1)..Len(toks) : toks[j] = "RB"}

BracketMatch(toks, starts) ==
    IF starts = {} THEN NoMatch
    ELSE [found |-> TRUE,
          group |-> SubSeq(toks, Min(starts), Max({k \in 1..Len(toks) : toks[k] = "RB"}))]

bracket_search(toks) == BracketMatch(toks, BracketStarts(toks))

\* lines 242-245, given the result of the search
FlashcardsJson(flashcards_text, json_match) ==
    IF json_match.found THEN json_match.group ELSE flashcards_text

flashcards_loads(flashcards_text) ==
    json_loads(FlashcardsJson(flashcards_text, bracket_search(flashcards_text)))

\* len(x): TypeError for a value without a length
py_len(x) ==
    CASE x.t = "arr" -> [exc |-> "ok", n |-> Len(x.v)]
      [] x.t = "obj" -> [exc |-> "ok", n |-> Cardinality(DOMAIN x.v)]
      [] x.t = "str" -> [exc |-> "ok", n |-> Len(x.v)]
      [] OTHER -> [exc |-> "TypeError", n |-> 0]

\* lines 265-268, given what json.loads returned or raised: the bare except
\* swallows a parse failure and the AttributeError of extend on a value
\* that is no list
Extended(flashcards, additional_flashcards) ==
    IF ~additional_flashcards.ok THEN flashcards
    ELSE IF ~isinstance_list(flashcards) THEN flashcards
    ELSE Arr(flashcards.v \o additional_flashcards.val.v)

\* lines 263-268, given the result of the search
Supplemented(flashcards, additional_json) ==
    IF ~additional_json.found THEN flashcards
    ELSE Extended(flashcards, json_loads(additional_json.group))

extend_flashcards(flashcards, additional_text) ==
    Supplemented(flashcards, bracket_search(additional_text))

Card(topic, question, answer) ==
    Obj([topic |-> Str(topic), question |-> Str(question), answer |-> Str(answer)])

\* lines 273-289
FallbackFlashcards ==
    Arr(<<Card("PDF Content Overview", "What is the main topic of this document?",
               "This document covers various topics and concepts that need to be studied and understood."),
          Card("Key Concepts", "What are the main concepts discussed in this document?",
               "The document discusses important concepts, definitions, and principles related to the subject matter."),
          Card("Important Information",
               "What key information should be remembered from this document?",
               "Key information includes definitions, formulas, processes, and fundamental principles that are essential for understanding the topic.")>>)

\* lines 294-301
BasicSummary == [kind |-> "basic", text |-> <<>>]
BasicFlashcards ==
    Arr(<<Card("PDF Content", "What is the main topic of this document?",
               "The document covers various topics and concepts.")>>)

GeneratedSummary(outcome) == [kind |-> "model", text |-> outcome.content]

\* except Exception as ai_error, lines 291-301
ai_error(used) ==
    [summary |-> BasicSummary, flashcards |-> BasicFlashcards, used |-> used]

Generated(o1, flashcards, used) ==
    [summary |-> GeneratedSummary(o1), flashcards |-> flashcards, used |-> used]

\* lines 248-268, given len(flashcards) or the TypeError it raised
Enhanced(o1, o2, o3, flashcards, length) ==
    IF length.exc # "ok" THEN ai_error(<<o1, o2>>)
    ELSE IF length.n < MinFlashcards
         THEN IF ~o3.ok THEN ai_error(<<o1, o2, o3>>)
              ELSE Generated(o1, extend_flashcards(flashcards, o3.content), <<o1, o2, o3>>)
         ELSE Generated(o1, flashcards, <<o1, o2>>)

\* lines 238-289, given what json.loads returned or raised
FlashcardsParsed(o1, o2, o3, flashcards) ==
    IF ~flashcards.ok THEN Generated(o1, FallbackFlashcards, <<o1, o2>>)
    ELSE Enhanced(o1, o2, o3, flashcards.val, py_len(flashcards.val))

\* lines 164-301: the summary, the flashcards and the model calls made
ai_section(o1, o2, o3) ==
    IF ~o1.ok THEN ai_error(<<o1>>)
    ELSE IF ~o2.ok THEN ai_error(<<o1, o2>>)
    ELSE FlashcardsParsed(o1, o2, o3, flashcards_loads(o2.content))

\* lines 303-310
PdfAnswer(file, ai) ==
    [response |-> Response(200, [filename |-> file.filename,
                                 summary |-> ai.summary,
                                 flashcards |-> ai.flashcards]),
     used |-> ai.used]

process_pdf(file, o1, o2, o3) ==
    IF file.filename # "" /\ ~lower_endswith_pdf(file.filename)
    THEN [response |-> Response(400, "File must have .pdf extension"), used |-> <<>>]
    ELSE IF ~file.readable
         THEN [response |-> Response(500, "Error reading PDF"), used |-> <<>>]
    ELSE IF ~file.has_text
         THEN [response |-> Response(400, "Could not extract text from PDF"), used |-> <<>>]
    ELSE PdfAnswer(file, ai_section(o1, o2, o3))

Files == [filename : {"notes.pdf", "NOTES.PDF", "notes.txt", ""},
          readable : BOOLEAN, has_text : BOOLEAN]
SummaryOutcomes == Outcomes({<<"P">>})
FlashOutcomes == Outcomes(SeqsUpTo(FlashTokens, MaxFlashLen))

\* the third outcome is drawn only when the handler makes a third call
SupplementalOutcomes(file, o1, o2) ==
    IF Len(process_pdf(file, o1, o2, Failure).used) = 3 THEN FlashOutcomes ELSE {Failure}

InitPdf ==
    /\ pc = "start"
    /\ op = "POST /process_pdf"
    /\ args = <<>>
    /\ llm = <<>>
    /\ calls = 0
    /\ ret = NoReturn

ProcessPdf ==
    /\ pc = "start"
    /\ op = "POST /process_pdf"
    /\ \E file \in Files, o1 \in SummaryOutcomes, o2 \in FlashOutcomes :
       \E o3 \in SupplementalOutcomes(file, o1, o2) :
       \E result \in {process_pdf(file, o1, o2, o3)} :
          /\ args' = file
          /\ llm' = result.used
          /\ calls' = Len(result.used)
          /\ ret' = result.response
    /\ pc' = "done"
    /\ UNCHANGED op

NextPdf == ProcessPdf

SpecPdf == InitPdf /\ [][NextPdf]_vars

(***************************************************************************)
(* POST /tutor and POST /discuss_pdf                                       *)
(***************************************************************************)
\* _format_tutoring_response: the completion and the note appended to it
format_tutoring_response(content, learning_style) ==
    IF learning_style = "Visual"
    THEN [content |-> content,
          note |-> "*Note: Visualize these concepts as you read for better retention.*"]
    ELSE IF learning_style = "Hands-on"
    THEN [content |-> content,
          note |-> "*Tip: Try working through the examples yourself to reinforce your learning.*"]
    ELSE [content |-> content, note |-> ""]

\* lines 45-63 of ai_engine.py: every exception is raised again as Exception
generate_tutoring_response(subject, level, question, learning_style, background, language, outcome) ==
    IF ~outcome.ok THEN Raise("Exception")
    ELSE Return(format_tutoring_response(outcome.content, learning_style))

\* lines 80-82 of main.py, given what generate_tutoring_response returned or
\* raised: the except branch returns a body, so the status is 200
TutorAnswer(explanation) ==
    IF explanation.raised
    THEN Response(200, [response |-> "Error generating explanation"])
    ELSE Response(200, [response |-> explanation.value])

get_tutoring_response(data, outcome) ==
    TutorAnswer(generate_tutoring_response(data.subject, data.level, data.question,
                                           data.learning_style, data.background,
                                           data.language, outcome))

\* lines 324-367 of main.py
discuss_pdf_content(data, outcome) ==
    IF ~outcome.ok THEN Response(500, "Error generating discussion response")
    ELSE Response(200, [response |-> outcome.content])

LearningStyles == {"Visual", "Text-based", "Hands-on"}
TutorRequests ==
    [subject : Subjects, level : Levels, question : {"", "Why?"},
     learning_style : LearningStyles, background : {"Unknown"}, language : {"English"}]
PDFDiscussionRequests ==
    [question : {"", "Why?"}, pdf_content : {"", "text"}, pdf_summary : {"", "summary"}]
TextOutcomes == Outcomes({<<>>, <<"P">>})

GetTutoringResponse ==
    /\ pc = "start"
    /\ op = "POST /tutor"
    /\ \E data \in TutorRequests, outcome \in TextOutcomes :
          /\ args' = data
          /\ llm' = <<outcome>>
          /\ calls' = 1
          /\ ret' = get_tutoring_response(data, outcome)
    /\ pc' = "done"
    /\ UNCHANGED op

DiscussPdfContent ==
    /\ pc = "start"
    /\ op = "POST /discuss_pdf"
    /\ \E data \in PDFDiscussionRequests, outcome \in TextOutcomes :
          /\ args' = data
          /\ llm' = <<outcome>>
          /\ calls' = 1
          /\ ret' = discuss_pdf_content(data, outcome)
    /\ pc' = "done"
    /\ UNCHANGED op

(***************************************************************************)
(* The five endpoints that invoke the model, one request each.             *)
(***************************************************************************)
Endpoints ==
    {"POST /tutor", "POST /quiz", "GET /quiz-html", "POST /process_pdf",
     "POST /discuss_pdf"}

InitApi ==
    /\ pc = "start"
    /\ op \in Endpoints
    /\ args = <<>>
    /\ llm = <<>>
    /\ calls = 0
    /\ ret = NoReturn

NextApi ==
    \/ GetTutoringResponse
    \/ GenerateQuizApi
    \/ GetQuizHtml
    \/ ProcessPdf
    \/ DiscussPdfContent

SpecApi == InitApi /\ [][NextApi]_vars

(***************************************************************************)
(* The Prompt Builder.  A prompt is the sequence of the lines of the       *)
(* f-string, each with its placeholders substituted.                       *)
(***************************************************************************)
\* _create_tutoring_prompt
create_tutoring_prompt(subject, level, question, learning_style, background, language) ==
    << "",
       "    You are an expert tutor in " \o subject \o " at the " \o level \o " level. ",
       "    ",
       "    STUDENT PROFILE:",
       "    - Background knowledge: " \o background,
       "    - Learning style preference: " \o learning_style,
       "    - Language preference: " \o language,
       "    ",
       "    QUESTION:",
       "    " \o question,
       "    ",
       "    INSTRUCTIONS:",
       "    1. Provide a clear, educational explanation that directly addresses the question",
       "    2. Tailor your explanation to a " \o background \o " student at " \o level \o " level",
       "    3. Use " \o language \o " as the primary language",
       "    4. Format your response with appropriate markdown for readability",
       "    ",
       "    LEARNING STYLE ADAPTATIONS:",
       "    - For Visual learners: Include descriptions of visual concepts, diagrams, or mental models",
       "    - For Text-based learners: Provide clear, structured explanations with defined concepts",
       "    - For Hands-on learners: Include practical examples, exercises, or applications",
       "    ",
       "    Your explanation should be educational, accurate, and engaging.",
       "    " >>

\* variant: the prompt carries the number of prompts built so far
create_quiz_prompt_numbered(subject, level, num_questions) ==
    << "",
       "    Create a " \o level \o "-level quiz on " \o subject \o " with exactly "
           \o ToString(num_questions) \o " multiple-choice questions.",
       "    Request #" \o ToString(calls) >>

\* _create_quiz_prompt; ''' stands for the three backticks of a fence
create_quiz_prompt(subject, level, num_questions) ==
    << "",
       "    Create a " \o level \o "-level quiz on " \o subject \o " with exactly "
           \o ToString(num_questions) \o " multiple-choice questions.",
       "    ",
       "    INSTRUCTIONS:",
       "    1. Each question should be appropriate for " \o level \o " level students",
       "    2. Each question must have exactly 4 answer options (A, B, C, D)",
       "    3. Clearly indicate the correct answer",
       "    4. Cover diverse aspects of " \o subject,
       "    ",
       "    FORMAT YOUR RESPONSE AS JSON:",
       "    '''json",
       "    [",
       "        {",
       "            \"question\": \"Question text\",",
       "            \"options\": [\"Option A\", \"Option B\", \"Option C\", \"Option D\"],",
       "            \"correct_answer\": \"Option A\",",
       "            \"explanation\": \"Brief explanation of why this answer is correct\"",
       "        },",
       "        ...",
       "    ]",
       "    '''",
       "    ",
       "    IMPORTANT: Make sure to return valid JSON that can be parsed. Do not include any text outside the JSON array.",
       "    Include a brief explanation for each correct answer.",
       "    " >>

(***************************************************************************)
(* A series of Prompt Builder calls in one process.  ret.value is the log  *)
(* of the calls made so far: the function, its arguments, its result.      *)
(***************************************************************************)
MaxCalls == 2

TutoringArgs ==
    [subject : {"", "Math"}, level : {"", "Beginner"}, question : {"", "Why?"},
     learning_style : {"Visual"}, background : {"", "Unknown"}, language : {"English"}]
QuizArgs == [subject : {"", "Math"}, level : {"", "Beginner"}, num_questions : Counts]

Called(fn, a, prompt) == [fn |-> fn, args |-> a, prompt |-> prompt]

InitPrompt ==
    /\ pc = "start"
    /\ op = "Prompt Builder"
    /\ args = <<>>
    /\ llm = <<>>
    /\ calls = 0
    /\ ret = NoReturn

CreateTutoringPrompt ==
    /\ pc = "start"
    /\ op = "Prompt Builder"
    /\ calls < MaxCalls
    /\ \E a \in TutoringArgs :
          /\ args' = a
          /\ ret' = Return(Append(ret.value,
                       Called("_create_tutoring_prompt", a,
                              create_tutoring_prompt(a.subject, a.level, a.question,
                                                     a.learning_style, a.background,
                                                     a.language))))
    /\ calls' = calls + 1
    /\ UNCHANGED <<pc, op, llm>>

CreateQuizPrompt ==
    /\ pc = "start"
    /\ op = "Prompt Builder"
    /\ calls < MaxCalls
    /\ \E a \in QuizArgs :
          /\ args' = a
          /\ ret' = Return(Append(ret.value,
                       Called("_create_quiz_prompt", a,
                              create_quiz_prompt(a.subject, a.level, a.num_questions))))
    /\ calls' = calls + 1
    /\ UNCHANGED <<pc, op, llm>>

NextPrompt == CreateTutoringPrompt \/ CreateQuizPrompt

SpecPrompt == InitPrompt /\ [][NextPrompt]_vars

(***************************************************************************)
(* The interpreter on completions that may hold a fenced block and bare    *)
(* arrays side by side: a segment, an optional ```json block around any    *)
(* short token sequence, a segment.                                        *)
(***************************************************************************)
MaxInner == 2

Segments ==
    {<<>>, <<"P">>, <<"LB", "Qa", "RB">>, <<"LB", "Qb", "Qa", "RB">>, <<"LB", "Q3", "RB">>}
InnerTokens == {"P", "LB", "RB", "Qa", "Qk", "N"}
Blocks ==
    {<<>>} \cup {<<"FJ", "LB">> \o inner \o <<"RB", "F">> : inner \in SeqsUpTo(InnerTokens, MaxInner)}

InitPriority ==
    /\ pc = "start"
    /\ op = "_parse_quiz_response"
    /\ \E pre \in Segments, block \in Blocks, post \in Segments,
          s \in Subjects, n \in Counts :
          args = [response_content |-> pre \o block \o post,
                  subject |-> s, num_questions |-> n]
    /\ llm = <<>>
    /\ calls = 0
    /\ ret = NoReturn

NextPriority == ParseQuizResponse

SpecPriority == InitPriority /\ [][NextPriority]_vars

(***************************************************************************)
(* The flashcard browser of frontend/app.py.  Streamlit runs the script    *)
(* from top to bottom on every event; st.session_state survives between    *)
(* runs.  args is the session state (the length of the stored flashcard    *)
(* list and the stored current_card, each possibly absent), llm the answer *)
(* of the POST made in the last run, calls the number of POSTs, ret what   *)
(* the last run displayed, pc the event that caused the last run.          *)
(***************************************************************************)
MaxCards == 3
MaxUploads == 3

Absent == [set |-> FALSE, v |-> 0]
Present(x) == [set |-> TRUE, v |-> x]

\* Python's max and min of two integers
max(a, b) == IF a >= b THEN a ELSE b
min(a, b) == IF a <= b THEN a ELSE b

\* tab3, lines 155-165: a file in the uploader is posted in every run; an
\* answer with status 200 replaces pdf_data (here: its flashcards' length)
tab3(session, upload) ==
    IF upload.posted /\ upload.status = 200
    THEN [session EXCEPT !.pdf_data = Present(upload.flashcards)]
    ELSE session

\* lines 194-197 and 203-206: what a click stores
clicked(session, click) ==
    IF click = "prev_card"
    THEN [session EXCEPT !.current_card =
             Present(max(0, (IF @.set THEN @.v ELSE 0) - 1))]
    ELSE IF click = "next_card"
    THEN [session EXCEPT !.current_card =
             Present(min(session.pdf_data.v - 1, (IF @.set THEN @.v ELSE 0) + 1))]
    ELSE session

\* lines 208-209
defaulted(session) ==
    IF session.current_card.set THEN session
    ELSE [session EXCEPT !.current_card = Present(0)]

\* flashcards[i] of line 211 on a list of n cards: negative indices count
\* from the end, anything else outside the list raises IndexError
getitem(n, i) ==
    IF i >= 0 /\ i < n THEN Return(i)
    ELSE IF i < 0 /\ i >= 0 - n THEN Return(n + i)
    ELSE Raise("IndexError")

\* tab4, lines 186-211: the session state after the run
tab4(session, click) ==
    IF session.pdf_data.set THEN defaulted(clicked(session, click)) ELSE session

\* what tab4 displays: the card looked up, or the notice of line 237
displayed(session) ==
    IF session.pdf_data.set
    THEN getitem(session.pdf_data.v, session.current_card.v)
    ELSE Return(<<>>)

\* one run of the script
script(session, click, upload) == tab4(tab3(session, upload), click)

NoPost == [posted |-> FALSE, status |-> 0, flashcards |-> 0]
Posts ==
    {[posted |-> TRUE, status |-> 200, flashcards |-> n] : n \in 0..MaxCards}
        \cup {[posted |-> TRUE, status |-> 500, flashcards |-> 0]}

\* the uploader holds no file, or the file it holds is posted
Uploads == IF calls < MaxUploads THEN {NoPost} \cup Posts ELSE {NoPost}

InitCards ==
    /\ pc = "start"
    /\ op = "app.py"
    /\ args = [pdf_data |-> Absent, current_card |-> Absent]
    /\ llm = <<>>
    /\ calls = 0
    /\ ret = NoReturn

Run(click) ==
    /\ op = "app.py"
    /\ \E upload \in Uploads :
       \E session \in {script(args, click, upload)} :
          /\ args' = session
          /\ llm' = IF upload.posted THEN <<upload>> ELSE <<>>
          /\ calls' = IF upload.posted THEN calls + 1 ELSE calls
          /\ ret' = displayed(session)
    /\ pc' = click
    /\ UNCHANGED op

\* a run caused by anything but the two buttons
Rerun == Run("rerun")

ClickPrevious == args.pdf_data.set /\ Run("prev_card")

ClickNext == args.pdf_data.set /\ Run("next_card")

NextCards == Rerun \/ ClickPrevious \/ ClickNext

SpecCards == InitCards /\ [][NextCards]_vars

(***************************************************************************)
(* The Discuss tab of frontend/app.py, once a PDF is loaded.  args is the  *)
(* session state (chat_history and last_question), llm the answer of the   *)
(* POST /discuss_pdf made in the last run (none when no request was made   *)
(* or no answer came), calls the number of requests made in the last run, *)
(* ret the notice the last run displayed, pc the button that caused it.    *)
(***************************************************************************)
MaxHistory == 6

\* user_question.strip() on a typed question: its text and whether blanks
\* surround it
strip(question) == question.text

NoQuestion == [set |-> FALSE, v |-> ""]

\* requests.post of lines 307-314: the answer of the backend, or an
\* exception when the backend cannot be reached
\* the body is read (response.json()["response"]) only for status 200
Answered(response) ==
    [raised |-> FALSE, status |-> response.status,
     response |-> IF response.status = 200 THEN response.body.response ELSE <<>>]

Replies(question) ==
    {[raised |-> TRUE, status |-> 0, response |-> <<>>]} \cup
    {Answered(discuss_pdf_content([question |-> strip(question), pdf_content |-> "text",
                                   pdf_summary |-> "summary"], outcome)) :
        outcome \in TextOutcomes}

\* lines 316-331, given the reply: the assistant entry is appended only for
\* status 200
replied(session, reply) ==
    IF ~reply.raised /\ reply.status = 200
    THEN [session EXCEPT !.chat_history =
             Append(@, [role |-> "assistant", content |-> reply.response])]
    ELSE session

\* lines 298-304: the user entry and last_question are stored before the
\* request is made
asked(session, question) ==
    [session EXCEPT !.chat_history = Append(@, [role |-> "user", content |-> strip(question)]),
                    !.last_question = [set |-> TRUE, v |-> strip(question)]]

\* line 296
already_asked(session, question) ==
    session.last_question.set /\ session.last_question.v = strip(question)

\* lines 293-338: whether the handler makes the request
requests_post(session, question) ==
    strip(question) # "" /\ ~already_asked(session, question)

\* the Ask Question handler
ask_question(session, question, reply) ==
    IF requests_post(session, question)
    THEN replied(asked(session, question), reply)
    ELSE session

\* the notice of the run
ask_notice(session, question, reply) ==
    IF strip(question) = "" THEN "Please enter a question."
    ELSE IF already_asked(session, question) THEN "This question was already asked."
    ELSE IF reply.raised THEN "Error"
    ELSE IF reply.status = 200 THEN "Response generated!"
    ELSE "Failed to get response. Please try again."

\* lines 341-345
clear_chat(session) ==
    [session EXCEPT !.chat_history = <<>>, !.last_question = NoQuestion]

InitChat ==
    /\ pc = "start"
    /\ op = "app.py tab5"
    /\ args = [chat_history |-> <<>>, last_question |-> NoQuestion]
    /\ llm = <<>>
    /\ calls = 0
    /\ ret = NoReturn

AskQuestion ==
    /\ op = "app.py tab5"
    /\ Len(args.chat_history) + 2 <= MaxHistory
    /\ \E question \in [text : {"", "Q1", "Q2"}, padded : BOOLEAN] :
       \E reply \in Replies(question) :
          /\ args' = ask_question(args, question, reply)
          /\ llm' = IF requests_post(args, question) /\ ~reply.raised
                    THEN <<reply>> ELSE <<>>
          /\ calls' = IF requests_post(args, question) THEN 1 ELSE 0
          /\ ret' = Return(ask_notice(args, question, reply))
    /\ pc' = "ask_btn"
    /\ UNCHANGED op

ClearChat ==
    /\ op = "app.py tab5"
    /\ pc # "start"
    /\ args' = clear_chat(args)
    /\ llm' = <<>>
    /\ calls' = 0
    /\ ret' = NoReturn
    /\ pc' = "clear_chat"
    /\ UNCHANGED op

SpecChat == InitChat /\ [][AskQuestion \/ ClearChat]_vars

(***************************************************************************)
(* Vocabulary of the properties, stated on the completion and the result   *)
(* and independent of the validation code above.                           *)
(***************************************************************************)
ParseDone == pc = "done" /\ op = "_parse_quiz_response"

\* a record as the data model describes it
WellFormed(r) ==
    /\ r.t = "obj"
    /\ "question" \in DOMAIN r.v
    /\ "options" \in DOMAIN r.v
    /\ "correct_answer" \in DOMAIN r.v
    /\ r.v.options.t = "arr"
    /\ Len(r.v.options.v) = 4

ValidBatch(x) == x.t = "arr" /\ \A k \in 1..Len(x.v) : WellFormed(x.v[k])

\* the array the interpreter parsed, when it parsed one
Parsed == json_loads(quiz_json(args.response_content))
ParsedArray == Parsed.ok /\ Parsed.val.t = "arr"

ContainsValidArray(text) ==
    \E i \in 1..Len(text) : \E j \in i..Len(text) :
        LET p == json_loads(SubSeq(text, i, j)) IN p.ok /\ ValidBatch(p.val)

FallbackEntry(r, subject, i) ==
    /\ r.t = "obj"
    /\ r.v.question = Str("Sample " \o subject \o " question #" \o ToString(i))
    /\ r.v.explanation = Str("This is a fallback explanation.")

IsFallback(batch, subject, n) ==
    /\ Len(batch) = n
    /\ \A i \in 1..n : FallbackEntry(batch[i], subject, i)

\* the records of the completion: those any of its tokens denotes
CompletionRecords == {TokenValue(tok) : tok \in ObjectTokens}

\* r is the record p, with at most an explanation added
SameRecord(r, p) == r.t = "obj" /\ \A key \in DOMAIN p.v : key \in DOMAIN r.v /\ r.v[key] = p.v[key]

C3_NoValidArrayGivesFallback ==
    (ParseDone /\ ~ContainsValidArray(args.response_content)) =>
        /\ ~ret.raised
        /\ IsFallback(ret.value, args.subject, args.num_questions)

C3_Witness ==
    /\ ParseDone
    /\ args.response_content = <<"LB", "Q3", "RB">>
    /\ args.num_questions = 2
    /\ IsFallback(ret.value, args.subject, 2)

(***************************************************************************)
(* C4: when the completion has no code fence and holds fewer well-formed   *)
(* records than the requested count, the interpreter returns the fallback  *)
(* batch of the requested count, and never a mix of parsed and synthetic   *)
(* records.                                                                *)
(***************************************************************************)
NoFence(text) == \A i \in 1..Len(text) : ~StartsWithFence(text[i])

C4_FewerRecordsGiveFallback ==
    (/\ ParseDone
     /\ NoFence(args.response_content)
     /\ ParsedArray
     /\ ValidBatch(Parsed.val)
     /\ Len(Parsed.val.v) >= 1
     /\ Len(Parsed.val.v) < args.num_questions) =>
        IsFallback(ret.value, args.subject, args.num_questions)

(***************************************************************************)
(* C5: validation is all-or-nothing and precedes truncation: when any      *)
(* record of the parsed array, also one beyond the requested count, is not *)
(* a well-formed mapping, the fallback batch is returned and no record of  *)
(* the completion is.                                                      *)
(***************************************************************************)
C5_AnyBadRecordGivesFallback ==
    (/\ ParseDone
     /\ ParsedArray
     /\ \E k \in 1..Len(Parsed.val.v) : ~WellFormed(Parsed.val.v[k])) =>
        /\ IsFallback(ret.value, args.subject, args.num_questions)
        /\ \A k \in 1..Len(ret.value) : ret.value[k] \notin CompletionRecords

C5_Witness ==
    /\ ParseDone
    /\ args.response_content = <<"LB", "Qa", "Q3", "RB">>
    /\ args.num_questions = 1
    /\ IsFallback(ret.value, args.subject, 1)

(***************************************************************************)
(* C6: a parsed and validated batch longer than the requested count n is   *)
(* returned as exactly its first n records, in their order.                *)
(***************************************************************************)
C6_TruncatedToCount ==
    (/\ ParseDone
     /\ ParsedArray
     /\ ValidBatch(Parsed.val)
     /\ Len(Parsed.val.v) > args.num_questions) =>
        /\ ~ret.raised
        /\ Len(ret.value) = args.num_questions
        /\ \A k \in 1..args.num_questions : SameRecord(ret.value[k], Parsed.val.v[k])

C6_Witness ==
    /\ ParseDone
    /\ args.response_content = <<"LB", "Qb", "Qa", "RB">>
    /\ args.num_questions = 1
    /\ Len(ret.value) = 1
    /\ ret.value[1].v.question = Str("Q2")

(***************************************************************************)
(* C7: on the success path a record without explanation is returned with   *)
(* the explanation 'The correct answer is {correct_answer}.', and a record *)
(* with an explanation keeps it.                                           *)
(***************************************************************************)
C7_ExplanationSynthesized ==
    (ParseDone /\ ParsedArray /\ ValidBatch(Parsed.val)) =>
        \A k \in 1..Len(ret.value) :
            LET p == Parsed.val.v[k]
            IN  IF "explanation" \in DOMAIN p.v
                THEN ret.value[k].v.explanation = p.v.explanation
                ELSE ret.value[k].v.explanation =
                        Str("The correct answer is " \o p.v.correct_answer.v \o ".")

C7_Witness ==
    /\ ParseDone
    /\ args.response_content = <<"LB", "Qa", "Qb", "RB">>
    /\ args.num_questions = 3
    /\ Len(ret.value) = 2
    /\ ret.value[1].v.explanation = Str("E")
    /\ ret.value[2].v.explanation = Str("The correct answer is Z.")

(***************************************************************************)
(* C1: whenever the model invocation succeeds, generate_quiz returns a     *)
(* result holding the quiz batch, with reveal_answer true or false, so     *)
(* POST /quiz and GET /quiz-html do not answer with a server error.        *)
(***************************************************************************)
C1_QuizAlwaysDisplayable ==
    (/\ pc = "done"
     /\ op \in {"POST /quiz", "GET /quiz-html"}
     /\ QuizRequest_valid(args)
     /\ calls = 1
     /\ llm[1].ok) =>
        ret.status < 500

(***************************************************************************)
(* C8 as stated: a valid quiz array of at most the requested count wrapped *)
(* in a fenced block, with or without a language tag, amid arbitrary text, *)
(* is returned record by record, in order, every field unchanged, and      *)
(* never replaced by the fallback.                                         *)
(***************************************************************************)
ReturnsEnclosedRecords ==
    /\ ~ret.raised
    /\ Len(ret.value) = Len(args.records)
    /\ \A k \in 1..Len(args.records) :
          SameRecord(ret.value[k], TokenValue(args.records[k]))

NoEarlierJsonFence(pre) ==
    \A i \in 1..(Len(pre) - 1) : ~(pre[i] = "FJ" /\ pre[i + 1] = "LB")

PdfAnswered == pc = "done" /\ op = "POST /process_pdf" /\ ret.status = 200

IsFlashcard(c) == c.t = "obj" /\ {"topic", "question", "answer"} \subseteq DOMAIN c.v

C9_FlashcardsValidated ==
    PdfAnswered =>
        /\ ret.body.flashcards.t = "arr"
        /\ \A k \in 1..Len(ret.body.flashcards.v) : IsFlashcard(ret.body.flashcards.v[k])

(***************************************************************************)
(* C10: when the first flashcard batch has fewer than 8 entries and the    *)
(* supplemental attempt fails (the call fails, or nothing can be extracted *)
(* or parsed from its output), POST /process_pdf still returns exactly the *)
(* flashcards parsed from the first attempt.                               *)
(***************************************************************************)
FirstBatch == flashcards_loads(llm[2].content)

SupplementalFailed ==
    \/ ~llm[3].ok
    \/ ~bracket_search(llm[3].content).found
    \/ ~json_loads(bracket_search(llm[3].content).group).ok

C10_SupplementalFailureSwallowed ==
    (/\ PdfAnswered
     /\ calls = 3
     /\ FirstBatch.val.t = "arr"
     /\ Len(FirstBatch.val.v) >= 1
     /\ SupplementalFailed) =>
        ret.body.flashcards = FirstBatch.val

(***************************************************************************)
(* C11: POST /process_pdf answers every input validation failure (a file   *)
(* name without the .pdf extension, a PDF the text extraction cannot read, *)
(* a PDF whose pages yield no text) with status 400, never with 5xx.       *)
(***************************************************************************)
ValidationFailure(file) ==
    \/ (file.filename # "" /\ ~lower_endswith_pdf(file.filename))
    \/ ~file.readable
    \/ ~file.has_text

C11_ValidationFailureIsClientError ==
    (pc = "done" /\ op = "POST /process_pdf" /\ ValidationFailure(args)) =>
        ret.status = 400

(***************************************************************************)
(* C12: on every endpoint that invokes the model, a failed model call is   *)
(* answered with a server error status, never with a success status.       *)
(***************************************************************************)
ModelCallFailed == \E k \in 1..Len(llm) : ~llm[k].ok

C12_ModelFailureIsServerError ==
    (pc = "done" /\ ModelCallFailed) => ret.status >= 500

(***************************************************************************)
(* C13: two Prompt Builder calls with identical arguments return identical *)
(* prompts, whatever calls were made before; every call returns, and an    *)
(* empty-string argument is substituted as the empty string.               *)
(***************************************************************************)
PromptLog == IF op = "Prompt Builder" THEN ret.value ELSE <<>>

SameCall(a, b) == a.fn = b.fn /\ a.args = b.args

EmptySubstituted(c) ==
    /\ (c.fn = "_create_quiz_prompt" /\ c.args.subject = "" /\ c.args.level = "") =>
          c.prompt[2] = "    Create a -level quiz on  with exactly "
                           \o ToString(c.args.num_questions)
                           \o " multiple-choice questions."
    /\ (c.fn = "_create_tutoring_prompt" /\ c.args.question = "") =>
          c.prompt[10] = "    "
    /\ (c.fn = "_create_tutoring_prompt" /\ c.args.subject = "" /\ c.args.level = "") =>
          c.prompt[2] = "    You are an expert tutor in  at the  level. "

Fenced == fence_search(args.response_content)
Bare == array_search(args.response_content)

ReturnsFallback ==
    ~ret.raised /\ IsFallback(ret.value, args.subject, args.num_questions)

C14_ParseFailureIsFinal ==
    ParseDone =>
        /\ (Fenced.found /\ ~json_loads(Fenced.group).ok) => ReturnsFallback
        /\ (~Fenced.found /\ Bare.found /\ ~json_loads(Bare.group).ok) => ReturnsFallback
        /\ (~Fenced.found /\ ~Bare.found /\ ~json_loads(args.response_content).ok) =>
              ReturnsFallback

C14_Witness ==
    /\ ParseDone
    /\ Fenced.found
    /\ ~json_loads(Fenced.group).ok
    /\ Bare.found
    /\ json_loads(Bare.group).ok
    /\ ValidBatch(json_loads(Bare.group).val)
    /\ Len(json_loads(Bare.group).val.v) = args.num_questions
    /\ args.num_questions >= 1
    /\ ReturnsFallback

(***************************************************************************)
(* C15: within one POST /process_pdf request the supplemental model call   *)
(* (the third call) is issued if and only if the first flashcard           *)
(* completion parsed into a batch of fewer than 8 entries, and no further  *)
(* call follows it.                                                        *)
(***************************************************************************)
FirstBatchUnder ==
    /\ Len(llm) >= 2
    /\ llm[2].ok
    /\ FirstBatch.ok
    /\ FirstBatch.val.t = "arr"
    /\ Len(FirstBatch.val.v) < MinFlashcards

C15_OneSupplementalAttempt ==
    (pc = "done" /\ op = "POST /process_pdf") =>
        /\ calls <= 3
        /\ ((calls = 3) <=> FirstBatchUnder)

(***************************************************************************)
(* C16: a batch of well-formed records is returned on the success path     *)
(* with every correct_answer unchanged, also when a correct_answer equals  *)
(* none of the record's four options; it is not replaced by the fallback.  *)
(***************************************************************************)
AnswerAmongOptions(r) ==
    \E o \in 1..Len(r.v.options.v) : r.v.options.v[o] = r.v.correct_answer

C16_AnswerNotCheckedAgainstOptions ==
    (ParseDone /\ ParsedArray /\ ValidBatch(Parsed.val)) =>
        /\ ~ret.raised
        /\ Len(ret.value) <= Len(Parsed.val.v)
        /\ \A k \in 1..Len(ret.value) :
              /\ ret.value[k].v.question = Parsed.val.v[k].v.question
              /\ ret.value[k].v.options = Parsed.val.v[k].v.options
              /\ ret.value[k].v.correct_answer = Parsed.val.v[k].v.correct_answer

C16_Witness ==
    /\ ParseDone
    /\ ParsedArray
    /\ ValidBatch(Parsed.val)
    /\ Len(ret.value) = 2
    /\ ~AnswerAmongOptions(Parsed.val.v[2])
    /\ ret.value[2].v.correct_answer = Str("Z")
    /\ ~IsFallback(ret.value, args.subject, args.num_questions)

(***************************************************************************)
(* C17: for every requested count n >= 1 the interpreter never returns an  *)
(* empty batch; a completion whose array is empty gives the n-entry        *)
(* fallback.                                                               *)
(***************************************************************************)
C17_NeverEmptyBatch ==
    (ParseDone /\ args.num_questions >= 1) =>
        /\ ~ret.raised
        /\ Len(ret.value) >= 1
        /\ (ParsedArray /\ Len(Parsed.val.v) = 0) => ReturnsFallback

(***************************************************************************)
(* C18: whenever the flashcard browser looks a card up, the stored         *)
(* current_card is within 0..len(flashcards)-1, after any sequence of      *)
(* Previous clicks, Next clicks, reruns and uploads that replace the list  *)
(* (stated for the runs whose list is not empty).                          *)
(***************************************************************************)
CardLookedUp ==
    op = "app.py" /\ pc # "start" /\ args.pdf_data.set /\ args.pdf_data.v >= 1

C18_IndexWithinList ==
    CardLookedUp =>
        /\ args.current_card.set
        /\ args.current_card.v >= 0
        /\ args.current_card.v <= args.pdf_data.v - 1

(***************************************************************************)
(* C19: on POST /quiz and GET /quiz-html the count handed to generate_quiz *)
(* is within 1..10; a count outside that range is rejected before any      *)
(* model invocation.                                                       *)
(***************************************************************************)
QuizRouteDone == pc = "done" /\ op \in {"POST /quiz", "GET /quiz-html"}

C19_CountWithinRange ==
    (QuizRouteDone /\ calls >= 1) =>
        (args.num_questions >= MinQuestions /\ args.num_questions <= MaxQuestions)

(***************************************************************************)
(* C20: once the summary call of POST /process_pdf has succeeded, the      *)
(* summary of the answer is the generated summary, whatever happens later  *)
(* in flashcard generation.                                                *)
(***************************************************************************)
C20_SummaryKept ==
    (PdfAnswered /\ calls >= 1 /\ llm[1].ok) =>
        ret.body.summary = GeneratedSummary(llm[1])

(***************************************************************************)
(* C21: after any sequence of Ask Question and Clear Chat actions, failed  *)
(* requests included, the chat history alternates user and assistant       *)
(* entries starting with a user entry: no two user entries are adjacent    *)
(* and every assistant entry follows the user entry it answers.            *)
(***************************************************************************)
ChatHistory == IF op = "app.py tab5" THEN args.chat_history ELSE <<>>

C21_HistoryAlternates ==
    \A i \in 1..Len(ChatHistory) :
        ChatHistory[i].role = (IF i % 2 = 1 THEN "user" ELSE "assistant")

====
